---- MODULE Spec2Model ----
(***************************************************************************)
(* MeloMuse: the transition model (src/models/transition_model.py) and the *)
(* Spotify data collector (src/data/spotify_collector.py).                 *)
(*                                                                         *)
(* Strings that the code inspects character by character (mood labels,     *)
(* node identifiers, the emotions given to generate_playlist) are tuples   *)
(* of one-character strings.  Floating-point values (similarities, edge    *)
(* weights, average durations) are exact rationals <<num, den>>, den > 0,  *)
(* in lowest terms.                                                        *)
(***************************************************************************)
EXTENDS Integers, Sequences, FiniteSets, TLC

VARIABLES
    nodes,      \* graph.nodes(): the node identifiers, in insertion order
    attrs,      \* node identifier -> [mood, cluster, songs]
    edges,      \* <<node1, node2>> -> weight, for the edges of the graph
    dataset,    \* the dataset of the most recent train call, 'cluster' column added
    trains,     \* number of train calls made on the instance
    ret,        \* outcome of the most recent generate_playlist call
    rl,         \* _handle_rate_limit: the running call
    gt,         \* get_playlist_tracks: the running call
    sr,         \* search_playlists_by_mood: the running call
    cm          \* collect_mood_data: the running call

vars == <<nodes, attrs, edges, dataset, trains, ret, rl, gt, sr, cm>>

----------------------------------------------------------------------------
(* Bounds of the model *)

\* train calls on one model instance
MaxTrains == 2
\* largest duration_minutes given to generate_playlist
MaxMinutes == 2
\* rows of a dataset
MaxRows == 5
\* requests get_playlist_tracks is followed through (pages of a playlist)
MaxPages == 3
\* distinct playlist identifiers in search responses
MaxIds == 3
\* items in one search response
MaxItems == 2
\* largest limit given to search_playlists_by_mood
MaxLimit == 3
\* distinct tracks in a dataset a model is trained on again
MaxDistinct == 2
\* playlists search_playlists_by_mood hands to collect_mood_data
MaxPlaylists == 3
\* track items get_playlist_tracks returns for one playlist
MaxPlaylistTracks == 2
\* the num_tracks asked of collect_mood_data
MaxNumTracks == 2

(* Program constants *)

\* KMeans(n_clusters=5)
NumClusters == 5
\* max_retries = 3
max_retries == 3
\* base_delay = 2
base_delay == 2
\* while results['next'] and len(tracks) < 50 / return tracks[:50]
TrackCap == 50
\* target_duration = duration_minutes * 60 * 1000
MsPerMinute == 60000

----------------------------------------------------------------------------
(* Sequences and rationals *)

Range(s) == {s[i] : i \in DOMAIN s}

Abs(x) == IF x < 0 THEN -x ELSE x

Max(a, b) == IF a >= b THEN a ELSE b

RECURSIVE Gcd(_, _)
Gcd(a, b) == IF b = 0 THEN a ELSE Gcd(b, a % b)

Rat(n, d) ==
    LET g == Gcd(Abs(n), d) IN <<n \div g, d \div g>>

RatAdd(a, b) == Rat(a[1] * b[2] + b[1] * a[2], a[2] * b[2])

RatSub(a, b) == Rat(a[1] * b[2] - b[1] * a[2], a[2] * b[2])

RatMul(a, b) == Rat(a[1] * b[1], a[2] * b[2])

RatAbs(a) == <<Abs(a[1]), a[2]>>

RatLess(a, b) == a[1] * b[2] < b[1] * a[2]

RatLeq(a, b) == a[1] * b[2] <= b[1] * a[2]

RECURSIVE RatSum(_)
RatSum(s) == IF s = <<>> THEN <<0, 1>> ELSE RatAdd(s[1], RatSum(Tail(s)))

\* np.mean of a non-empty list
Mean(s) == RatMul(RatSum(s), <<1, Len(s)>>)

----------------------------------------------------------------------------
(* Mood labels and node identifiers *)

Sad         == <<"s", "a", "d">>
Happy       == <<"h", "a", "p", "p", "y">>
Calm        == <<"c", "a", "l", "m">>
Energetic   == <<"e", "n", "e", "r", "g", "e", "t", "i", "c">>
Angry       == <<"a", "n", "g", "r", "y">>
Romantic    == <<"r", "o", "m", "a", "n", "t", "i", "c">>
Melancholic == <<"m", "e", "l", "a", "n", "c", "h", "o", "l", "i", "c">>

\* The characters of node identifiers in ascending code-point order
Alphabet ==
    <<"0", "1", "2", "3", "4", "_", "a", "c", "d", "e", "g", "h", "i", "l",
      "m", "n", "o", "p", "r", "s", "t", "y">>

Ord(c) == CHOOSE i \in DOMAIN Alphabet : Alphabet[i] = c

\* Python's < on strings
RECURSIVE StrLess(_, _)
StrLess(a, b) ==
    IF b = <<>> THEN FALSE
    ELSE IF a = <<>> THEN TRUE
    ELSE IF a[1] = b[1] THEN StrLess(Tail(a), Tail(b))
    ELSE Ord(a[1]) < Ord(b[1])

\* str(cluster) for a cluster index 0..4
Digit(c) == Alphabet[c + 1]

\* f"{mood}_{cluster}"
NodeId(mood, cluster) == mood \o <<"_">> \o <<Digit(cluster)>>

\* n.startswith(emotion)
StartsWith(n, emotion) ==
    /\ Len(emotion) <= Len(n)
    /\ SubSeq(n, 1, Len(emotion)) = emotion

----------------------------------------------------------------------------
(* Track records *)

\* The tracks a dataset row is drawn from.  Durations are whole minutes in
\* milliseconds; artist_popularity and artist_followers are the defaults
\* get_track_info falls back to.
Track(id, mood, pop, minutes, expl, album) ==
    [id |-> id, mood |-> mood, popularity |-> pop,
     duration_ms |-> minutes * MsPerMinute, explicit |-> expl,
     album_type |-> album, artist_popularity |-> 0, artist_followers |-> 0]

Tracks ==
    <<Track(1, Sad, 0, 0, FALSE, "album"),
      Track(2, Sad, 40, 1, FALSE, "single"),
      Track(3, Happy, 80, 2, TRUE, "single"),
      Track(4, Happy, 40, 1, FALSE, "album")>>

TrackIds == DOMAIN Tracks

----------------------------------------------------------------------------
(* _calculate_feature_similarity, _calculate_transition_weight *)

mood_weights ==
    (<<Sad, Happy>> :> <<8, 10>>) @@ (<<Happy, Sad>> :> <<6, 10>>) @@
    (<<Calm, Energetic>> :> <<7, 10>>) @@ (<<Energetic, Calm>> :> <<7, 10>>) @@
    (<<Angry, Calm>> :> <<8, 10>>) @@ (<<Calm, Angry>> :> <<5, 10>>) @@
    (<<Romantic, Happy>> :> <<7, 10>>) @@ (<<Happy, Romantic>> :> <<7, 10>>) @@
    (<<Melancholic, Happy>> :> <<6, 10>>) @@ (<<Happy, Melancholic>> :> <<5, 10>>)

\* mood_weights.get(mood_pair, 0.3)
BaseWeight(mood1, mood2) ==
    IF <<mood1, mood2>> \in DOMAIN mood_weights
    THEN Rat(mood_weights[<<mood1, mood2>>][1], mood_weights[<<mood1, mood2>>][2])
    ELSE Rat(3, 10)

\* One numeric feature: appended only when max(v1, v2) > 0
NumericSimilarity(v1, v2) ==
    LET max_val == Max(v1, v2) IN
    IF max_val > 0
    THEN << RatSub(<<1, 1>>, Rat(Abs(v1 - v2), max_val)) >>
    ELSE << >>

\* One categorical feature: 1.0 when equal, 0.0 otherwise
CategoricalSimilarity(v1, v2) == IF v1 = v2 THEN << <<1, 1>> >> ELSE << <<0, 1>> >>

Similarities(song1, song2) ==
    NumericSimilarity(song1.popularity, song2.popularity) \o
    NumericSimilarity(song1.duration_ms, song2.duration_ms) \o
    NumericSimilarity(song1.artist_popularity, song2.artist_popularity) \o
    NumericSimilarity(song1.artist_followers, song2.artist_followers) \o
    CategoricalSimilarity(song1.explicit, song2.explicit) \o
    CategoricalSimilarity(song1.album_type, song2.album_type)

FeatureSimilarity(song1, song2) == Mean(Similarities(song1, song2))

TransitionWeight(song1, song2) ==
    RatMul(BaseWeight(song1.mood, song2.mood), FeatureSimilarity(song1, song2))

----------------------------------------------------------------------------
(* train, _build_transition_graph *)

\* dataset['cluster'] = self.kmeans.fit_predict(scaled_features): rows with the
\* same feature vector (the same track) get the same label in 0..4
WithClusters(rows, labels) ==
    [i \in DOMAIN rows |->
        [id |-> rows[i].id, mood |-> rows[i].mood,
         popularity |-> rows[i].popularity, duration_ms |-> rows[i].duration_ms,
         explicit |-> rows[i].explicit, album_type |-> rows[i].album_type,
         artist_popularity |-> rows[i].artist_popularity,
         artist_followers |-> rows[i].artist_followers,
         cluster |-> labels[rows[i].id]]]

\* (mutant) only the first row of a group is kept
GroupRowsFirst(ds, key) ==
    LET first == CHOOSE i \in DOMAIN ds :
                     /\ <<ds[i].mood, ds[i].cluster>> = key
                     /\ \A j \in 1..(i - 1) : <<ds[j].mood, ds[j].cluster>> # key
    IN  <<ds[first]>>

\* The rows of one (mood, cluster) group, in dataset order
RECURSIVE GroupRows(_, _)
GroupRows(ds, key) ==
    IF ds = <<>> THEN <<>>
    ELSE IF <<ds[1].mood, ds[1].cluster>> = key
         THEN <<ds[1]>> \o GroupRows(Tail(ds), key)
         ELSE GroupRows(Tail(ds), key)

\* dataset.groupby(['mood', 'cluster']): the keys of the non-empty groups
GroupKeys(ds) == {<<ds[i].mood, ds[i].cluster>> : i \in DOMAIN ds}

\* groupby iterates its keys in ascending order
KeyLess(k1, k2) ==
    \/ StrLess(k1[1], k2[1])
    \/ k1[1] = k2[1] /\ k1[2] < k2[2]

RECURSIVE SortedKeys(_)
SortedKeys(keys) ==
    IF keys = {} THEN <<>>
    ELSE LET least == CHOOSE k \in keys : \A o \in keys \ {k} : KeyLess(k, o)
         IN  <<least>> \o SortedKeys(keys \ {least})

\* add_node keeps the position of a node the graph already has
RECURSIVE AddNodes(_, _)
AddNodes(order, keys) ==
    IF keys = <<>> THEN order
    ELSE LET id == NodeId(keys[1][1], keys[1][2]) IN
         AddNodes(IF id \in Range(order) THEN order ELSE Append(order, id),
                  Tail(keys))

\* add_node(node_id, mood=, cluster=, songs=) replaces the attributes of a
\* node the graph already has
NodesAfter(oldAttrs, ds) ==
    LET new == {NodeId(k[1], k[2]) : k \in GroupKeys(ds)} IN
    [n \in (DOMAIN oldAttrs) \cup new |->
        IF n \in new
        THEN LET key == CHOOSE k \in GroupKeys(ds) : NodeId(k[1], k[2]) = n
             IN  [mood |-> key[1], cluster |-> key[2], songs |-> GroupRows(ds, key)]
        ELSE oldAttrs[n]]

\* The all-pairs loop: add_edge when weight > 0 (a present edge gets the new
\* weight, an edge whose new weight is not positive is left as it was)
EdgesAfter(oldEdges, newAttrs) ==
    LET W(n1, n2) == TransitionWeight(newAttrs[n1].songs[1], newAttrs[n2].songs[1])
        added == {p \in (DOMAIN newAttrs) \X (DOMAIN newAttrs) :
                     RatLess(<<0, 1>>, W(p[1], p[2]))}
    IN  [p \in (DOMAIN oldEdges) \cup added |->
            IF p \in added THEN W(p[1], p[2]) ELSE oldEdges[p]]

----------------------------------------------------------------------------
(* train *)

NoCall == [kind |-> "none"]

\* TransitionModel(): an empty graph
ModelInit ==
    /\ nodes = <<>>
    /\ attrs = <<>>
    /\ edges = <<>>
    /\ dataset = <<>>
    /\ trains = 0
    /\ ret = NoCall

\* train(dataset), with labels the clustering's label for each track.
\* KMeans(n_clusters=5) refuses a dataset of fewer than 5 rows.
Train(rows, labels) ==
    /\ trains < MaxTrains
    /\ Len(rows) >= NumClusters
    /\ LET ds == WithClusters(rows, labels)
           newAttrs == NodesAfter(attrs, ds)
       IN  /\ dataset' = ds
           /\ nodes' = AddNodes(nodes, SortedKeys(GroupKeys(ds)))
           /\ attrs' = newAttrs
           /\ edges' = EdgesAfter(edges, newAttrs)
    /\ trains' = trains + 1
    /\ ret' = NoCall
    /\ UNCHANGED <<rl, gt, sr, cm>>

----------------------------------------------------------------------------
(* generate_playlist, _calculate_path_duration *)

\* (mutant) the nodes are not filtered by the emotion
NodesForAny(order, emotion) == order

\* [n for n in self.graph.nodes() if n.startswith(emotion)]
RECURSIVE NodesFor(_, _)
NodesFor(order, emotion) ==
    IF order = <<>> THEN <<>>
    ELSE IF StartsWith(order[1], emotion)
         THEN <<order[1]>> \o NodesFor(Tail(order), emotion)
         ELSE NodesFor(Tail(order), emotion)

\* The simple paths from the end of path to target
RECURSIVE PathsFrom(_, _)
PathsFrom(path, target) ==
    IF path[Len(path)] = target THEN {path}
    ELSE UNION {PathsFrom(Append(path, n), target) :
                   n \in {m \in DOMAIN attrs :
                             /\ <<path[Len(path)], m>> \in DOMAIN edges
                             /\ m \notin Range(path)}}

PathWeight(path) ==
    RatSum([i \in 1..(Len(path) - 1) |-> edges[<<path[i], path[i + 1]>>]])

\* nx.shortest_path(self.graph, start, end, weight='weight'): a path of least
\* total weight (every weight is positive, so it repeats no node); which one
\* of several of the same weight is returned is left open.  The empty set
\* stands for NetworkXNoPath.
ShortestPaths(start, end) ==
    LET all == PathsFrom(<<start>>, end) IN
    {p \in all : \A q \in all : RatLeq(PathWeight(p), PathWeight(q))}

\* _calculate_path_duration
PathDuration(path) ==
    RatSum([i \in DOMAIN path |->
               LET songs == attrs[path[i]].songs IN
               Mean([j \in DOMAIN songs |-> <<songs[j].duration_ms, 1>>])])

\* for start in start_nodes: for end in end_nodes
Pairs(start_nodes, end_nodes) ==
    [k \in 1..(Len(start_nodes) * Len(end_nodes)) |->
        <<start_nodes[((k - 1) \div Len(end_nodes)) + 1],
          end_nodes[((k - 1) % Len(end_nodes)) + 1]>>]

\* The paths the double loop computes, in loop order, one for each pair that
\* has a path
RECURSIVE Candidates(_)
Candidates(pairs) ==
    IF pairs = <<>> THEN {<<>>}
    ELSE LET found == ShortestPaths(pairs[1][1], pairs[1][2])
             rest == Candidates(Tail(pairs))
         IN  IF found = {} THEN rest
             ELSE {<<p>> \o r : p \in found, r \in rest}

\* abs(path_duration - target_duration)
Distance(path, target) == RatAbs(RatSub(PathDuration(path), <<target, 1>>))

\* (mutant) the comparison without abs(): the candidate of least duration
RECURSIVE BestPathShortest(_, _, _)
BestPathShortest(cands, best, target) ==
    IF cands = <<>> THEN best
    ELSE IF best = <<>> \/ RatLess(PathDuration(cands[1]), PathDuration(best))
         THEN BestPathShortest(Tail(cands), cands[1], target)
         ELSE BestPathShortest(Tail(cands), best, target)

\* The loop's best_path: a candidate replaces the best so far when it is
\* strictly closer to the target; the first one always does (best_duration
\* starts at infinity).  <<>> stands for None.
RECURSIVE BestPath(_, _, _)
BestPath(cands, best, target) ==
    IF cands = <<>> THEN best
    ELSE IF best = <<>> \/ RatLess(Distance(cands[1], target), Distance(best, target))
         THEN BestPath(Tail(cands), cands[1], target)
         ELSE BestPath(Tail(cands), best, target)

\* (mutant) the walk stops on current_duration > target_duration
RECURSIVE WalksStrict(_, _, _)
WalksStrict(path, current_duration, target) ==
    IF path = <<>> THEN {<<>>}
    ELSE UNION {IF current_duration + song.duration_ms > target
                THEN {<<song>>}
                ELSE {<<song>> \o w :
                         w \in WalksStrict(Tail(path),
                                           current_duration + song.duration_ms,
                                           target)} :
                   song \in Range(attrs[path[1]].songs)}

\* The playlists the walk along best_path can emit: one song of each node,
\* any of the node's songs, until current_duration >= target_duration
RECURSIVE Walks(_, _, _)
Walks(path, current_duration, target) ==
    IF path = <<>> THEN {<<>>}
    ELSE UNION {IF current_duration + song.duration_ms >= target
                THEN {<<song>>}
                ELSE {<<song>> \o w :
                         w \in Walks(Tail(path),
                                     current_duration + song.duration_ms, target)} :
                   song \in Range(attrs[path[1]].songs)}

\* raise ValueError("Could not find nodes for emotions: ..."), raised before
\* the loop that calls nx.shortest_path
GenerateNoNodes(start_emotion, end_emotion, duration_minutes) ==
    /\ NodesFor(nodes, start_emotion) = <<>> \/ NodesFor(nodes, end_emotion) = <<>>
    /\ ret' = [kind |-> "no_nodes", start |-> start_emotion, end |-> end_emotion,
               minutes |-> duration_minutes, searched |-> FALSE]
    /\ UNCHANGED <<nodes, attrs, edges, dataset, trains, rl, gt, sr, cm>>

\* raise ValueError("No valid path found from ... to ...")
GenerateNoPath(start_emotion, end_emotion, duration_minutes) ==
    /\ NodesFor(nodes, start_emotion) # <<>>
    /\ NodesFor(nodes, end_emotion) # <<>>
    /\ Candidates(Pairs(NodesFor(nodes, start_emotion),
                        NodesFor(nodes, end_emotion))) = {<<>>}
    /\ ret' = [kind |-> "no_path", start |-> start_emotion, end |-> end_emotion,
               minutes |-> duration_minutes, searched |-> TRUE]
    /\ UNCHANGED <<nodes, attrs, edges, dataset, trains, rl, gt, sr, cm>>

\* return pd.DataFrame(playlist)
GeneratePlaylist(start_emotion, end_emotion, duration_minutes) ==
    /\ NodesFor(nodes, start_emotion) # <<>>
    /\ NodesFor(nodes, end_emotion) # <<>>
    /\ LET target == duration_minutes * MsPerMinute IN
       \E cands \in Candidates(Pairs(NodesFor(nodes, start_emotion),
                                     NodesFor(nodes, end_emotion))) :
          /\ cands # <<>>
          /\ LET best_path == BestPath(cands, <<>>, target) IN
             \E playlist \in Walks(best_path, 0, target) :
                ret' = [kind |-> "playlist", start |-> start_emotion,
                        end |-> end_emotion, minutes |-> duration_minutes,
                        searched |-> TRUE, candidates |-> cands,
                        path |-> best_path, playlist |-> playlist]
    /\ UNCHANGED <<nodes, attrs, edges, dataset, trains, rl, gt, sr, cm>>

----------------------------------------------------------------------------
(* SpotifyDataCollector._handle_rate_limit *)

\* Error messages, as the characters of str(e)
Msg429 == <<"4", "2", "9">>
Msg403 == <<"4", "0", "3">>
Msg500 == <<"5", "0", "0">>
MsgLong == <<"i", "d", "1", "4", "2", "9", "0">>

\* pattern in message
Contains(message, pattern) ==
    \E i \in 0..(Len(message) - Len(pattern)) :
        SubSeq(message, i + 1, i + Len(pattern)) = pattern

\* (mutant) only '429' counts as a rate limit
IsRateLimit429(message) == Contains(message, Msg429)

\* '429' in str(e) or '403' in str(e)
IsRateLimit(message) == Contains(message, Msg429) \/ Contains(message, Msg403)

\* (mutant) the delay does not grow with the attempt
BackoffConstant(attempt) == base_delay

\* delay = base_delay * (2 ** attempt)
BackoffDelay(attempt) == base_delay * (2 ^ attempt)

\* What the wrapped call does on each invocation: "ok", or the message of
\* the error it raises
Outcomes == {<<"o", "k">>, Msg429, Msg403, Msg500, MsgLong}

Scripts == [1..max_retries -> Outcomes]

RlIdle == [pc |-> "idle"]

Throttle == [kind |-> "throttle", seconds |-> 1]

Backoff(attempt) == [kind |-> "backoff", seconds |-> BackoffDelay(attempt)]

\* _handle_rate_limit(func, ...) is called
RlStart(script) ==
    /\ rl.pc = "idle"
    /\ rl' = [pc |-> "running", script |-> script, attempt |-> 0, calls |-> 0,
              sleeps |-> <<>>, result |-> 0]
    /\ UNCHANGED <<nodes, attrs, edges, dataset, trains, ret, gt, sr, cm>>

\* One pass of the loop in which func returns: time.sleep(1); return func(...).
\* result names the invocation whose value is returned.
RlReturn ==
    /\ rl.pc = "running"
    /\ rl.attempt < max_retries
    /\ rl.script[rl.attempt + 1] = <<"o", "k">>
    /\ rl' = [rl EXCEPT !.pc = "returned", !.calls = @ + 1,
                        !.sleeps = Append(@, Throttle), !.result = rl.calls + 1]
    /\ UNCHANGED <<nodes, attrs, edges, dataset, trains, ret, gt, sr, cm>>

\* One pass in which func raises a rate-limit error before the last attempt:
\* time.sleep(1); func(...); time.sleep(delay); continue
RlRetry ==
    /\ rl.pc = "running"
    /\ rl.attempt < max_retries
    /\ rl.script[rl.attempt + 1] # <<"o", "k">>
    /\ IsRateLimit(rl.script[rl.attempt + 1])
    /\ rl.attempt < max_retries - 1
    /\ rl' = [rl EXCEPT !.attempt = @ + 1, !.calls = @ + 1,
                        !.sleeps = @ \o <<Throttle, Backoff(rl.attempt)>>]
    /\ UNCHANGED <<nodes, attrs, edges, dataset, trains, ret, gt, sr, cm>>

\* One pass in which func raises and the error is re-raised: time.sleep(1);
\* func(...); raise
RlRaise ==
    /\ rl.pc = "running"
    /\ rl.attempt < max_retries
    /\ rl.script[rl.attempt + 1] # <<"o", "k">>
    /\ ~(IsRateLimit(rl.script[rl.attempt + 1]) /\ rl.attempt < max_retries - 1)
    /\ rl' = [rl EXCEPT !.pc = "raised", !.calls = @ + 1,
                        !.sleeps = Append(@, Throttle)]
    /\ UNCHANGED <<nodes, attrs, edges, dataset, trains, ret, gt, sr, cm>>

----------------------------------------------------------------------------
(* SpotifyDataCollector.get_playlist_tracks *)

\* A response of sp.playlist_tracks / sp.next as _handle_rate_limit hands it
\* over: an error raised, a response without 'items' (None for the first
\* request), or a page of items with its 'next' link
PageSizes == {0, 1, TrackCap - 1, TrackCap, 2 * TrackCap}

Pages == [kind : {"page"}, size : PageSizes, next : BOOLEAN]

Responses == Pages \cup {[kind |-> "error"], [kind |-> "no_items"]}

\* The items of the page fetched by the given request
Items(request, size) == [i \in 1..size |-> <<request, i>>]

\* (mutant) the list is returned whole
NoSlice(tracks, n) == tracks

\* tracks[:50]
Slice(tracks, n) == SubSeq(tracks, 1, IF Len(tracks) < n THEN Len(tracks) ELSE n)

GtIdle == [pc |-> "idle"]

\* results = self._handle_rate_limit(self.sp.playlist_tracks, playlist_id),
\* up to tracks = results['items']; an error or a response without items
\* returns []
GtFirst(resp) ==
    /\ gt.pc = "idle"
    /\ gt' = IF resp.kind = "page"
             THEN [pc |-> "loop", tracks |-> Items(1, resp.size),
                   next |-> resp.next, requests |-> 1, had |-> <<>>]
             ELSE [pc |-> "returned", result |-> <<>>, requests |-> 1, had |-> <<>>]
    /\ UNCHANGED <<nodes, attrs, edges, dataset, trains, ret, rl, sr, cm>>

\* while results['next'] and len(tracks) < 50
LoopCondition(next, tracks) == next /\ Len(tracks) < TrackCap

\* One pass of the while loop: the next page is requested and its items are
\* appended.  An error returns [] (the except branch), and so does a response
\* of None ("no_items").  had lists len(tracks) at each such request.
GtNext(resp) ==
    /\ gt.pc = "loop"
    /\ gt.requests < MaxPages
    /\ LoopCondition(gt.next, gt.tracks)
    /\ gt' = IF resp.kind = "page"
             THEN [gt EXCEPT !.tracks = @ \o Items(gt.requests + 1, resp.size),
                             !.next = resp.next, !.requests = @ + 1,
                             !.had = Append(@, Len(gt.tracks))]
             ELSE [pc |-> "returned", result |-> <<>>, requests |-> gt.requests + 1,
                   had |-> Append(gt.had, Len(gt.tracks))]
    /\ UNCHANGED <<nodes, attrs, edges, dataset, trains, ret, rl, sr, cm>>

\* return tracks[:50]
GtReturn ==
    /\ gt.pc = "loop"
    /\ ~LoopCondition(gt.next, gt.tracks)
    /\ gt' = [pc |-> "returned", result |-> Slice(gt.tracks, TrackCap),
              requests |-> gt.requests, had |-> gt.had]
    /\ UNCHANGED <<nodes, attrs, edges, dataset, trains, ret, rl, sr, cm>>

----------------------------------------------------------------------------
(* SpotifyDataCollector.search_playlists_by_mood *)

\* The four query variants
NumQueries == 4

PlaylistIds == 1..MaxIds

\* The items of a search response: playlists (by identifier), or None (0)
\* where the service lists no playlist
RECURSIVE SeqsUpTo(_, _)
SeqsUpTo(S, n) ==
    IF n = 0 THEN {<<>>}
    ELSE SeqsUpTo(S, n - 1) \cup
         {Append(q, x) : q \in {r \in SeqsUpTo(S, n - 1) : Len(r) = n - 1}, x \in S}

SearchResponses ==
    {[kind |-> "error"], [kind |-> "no_items"]} \cup
    {[kind |-> "items", items |-> q] : q \in SeqsUpTo(PlaylistIds \cup {0}, MaxItems)}

\* (mutant) every playlist is appended, seen or not
RECURSIVE CollectAll(_, _, _)
CollectAll(items, all_playlists, seen_ids) ==
    IF items = <<>> \/ items[1] = 0 THEN <<all_playlists, seen_ids>>
    ELSE CollectAll(Tail(items), Append(all_playlists, items[1]),
                    seen_ids \cup {items[1]})

\* The inner loop over the playlists of one response, up to the first None
\* item (playlist['id'] raises there, and the except branch moves on to the
\* next query): <<all_playlists, seen_ids>> afterwards
RECURSIVE Collect(_, _, _)
Collect(items, all_playlists, seen_ids) ==
    IF items = <<>> \/ items[1] = 0 THEN <<all_playlists, seen_ids>>
    ELSE IF items[1] \notin seen_ids
         THEN Collect(Tail(items), Append(all_playlists, items[1]),
                      seen_ids \cup {items[1]})
         ELSE Collect(Tail(items), all_playlists, seen_ids)

\* The items the inner loop gets through: all of them, or those up to and
\* with the first None
RECURSIVE Offered(_)
Offered(items) ==
    IF items = <<>> THEN 0
    ELSE IF items[1] = 0 THEN 1
    ELSE 1 + Offered(Tail(items))

SrIdle == [pc |-> "idle"]

\* search_playlists_by_mood(mood, limit) is called
SrStart(limit) ==
    /\ sr.pc = "idle"
    /\ sr' = [pc |-> "queries", limit |-> limit, query |-> 1,
              all_playlists |-> <<>>, seen_ids |-> {}, offered |-> 0]
    /\ UNCHANGED <<nodes, attrs, edges, dataset, trains, ret, rl, gt, cm>>

\* One pass of the loop over the queries
SrQuery(resp) ==
    /\ sr.pc = "queries"
    /\ sr.query <= NumQueries
    /\ LET after == IF resp.kind = "items"
                    THEN Collect(resp.items, sr.all_playlists, sr.seen_ids)
                    ELSE <<sr.all_playlists, sr.seen_ids>>
       IN  sr' = [sr EXCEPT !.query = @ + 1, !.all_playlists = after[1],
                            !.seen_ids = after[2],
                            !.offered = IF resp.kind = "items"
                                        THEN @ + Offered(resp.items) ELSE @]
    /\ UNCHANGED <<nodes, attrs, edges, dataset, trains, ret, rl, gt, cm>>

\* return all_playlists[:limit]
SrReturn ==
    /\ sr.pc = "queries"
    /\ sr.query > NumQueries
    /\ sr' = [pc |-> "returned", limit |-> sr.limit, offered |-> sr.offered,
              result |-> Slice(sr.all_playlists, sr.limit)]
    /\ UNCHANGED <<nodes, attrs, edges, dataset, trains, ret, rl, gt, cm>>

----------------------------------------------------------------------------
(* collect_mood_data(mood, num_tracks)                                      *)

\* A track item of a playlist: its 'track' is None or has no id ("none"), or
\* get_track_info(track['id']) returns None ("no_info") or a record ("info")
TrackItems == {"none", "no_info", "info"}

\* What get_playlist_tracks(playlist['id']) returns: a list of track items,
\* empty when the fetch fails
PlaylistTracks == SeqsUpTo(TrackItems, MaxPlaylistTracks)

CmIdle == [pc |-> "idle"]

\* if len(tracks_data) >= num_tracks: break
Enough(tracks_data, num_tracks) == Len(tracks_data) >= num_tracks

\* collect_mood_data is called; search_playlists_by_mood returns n playlists.
\* fetches logs every get_playlist_tracks and get_track_info call with the
\* len(tracks_data) it was issued at.
CmStart(num_tracks, n) ==
    /\ cm.pc = "idle"
    /\ cm' = [pc |-> "playlists", num_tracks |-> num_tracks, playlists |-> n,
              playlist |-> 1, playlist_tracks |-> <<>>, item |-> 1,
              tracks_data |-> <<>>, fetches |-> <<>>]
    /\ UNCHANGED <<nodes, attrs, edges, dataset, trains, ret, rl, gt, sr>>

\* The outer loop takes the next playlist and fetches its tracks
CmPlaylist(playlist_tracks) ==
    /\ cm.pc = "playlists"
    /\ cm.playlist <= cm.playlists
    /\ cm' = [cm EXCEPT !.pc = "tracks", !.playlist_tracks = playlist_tracks,
                        !.item = 1,
                        !.fetches = Append(@, [op |-> "get_playlist_tracks",
                                               playlist |-> cm.playlist,
                                               had |-> Len(cm.tracks_data)])]
    /\ UNCHANGED <<nodes, attrs, edges, dataset, trains, ret, rl, gt, sr>>

\* The inner loop breaks: the outer loop goes on with the next playlist
CmBreak ==
    /\ cm.pc = "tracks"
    /\ cm.item <= Len(cm.playlist_tracks)
    /\ Enough(cm.tracks_data, cm.num_tracks)
    /\ cm' = [cm EXCEPT !.pc = "playlists", !.playlist = @ + 1]
    /\ UNCHANGED <<nodes, attrs, edges, dataset, trains, ret, rl, gt, sr>>

\* if not track or not track['id']: continue
CmSkip ==
    /\ cm.pc = "tracks"
    /\ cm.item <= Len(cm.playlist_tracks)
    /\ ~Enough(cm.tracks_data, cm.num_tracks)
    /\ cm.playlist_tracks[cm.item] = "none"
    /\ cm' = [cm EXCEPT !.item = @ + 1]
    /\ UNCHANGED <<nodes, attrs, edges, dataset, trains, ret, rl, gt, sr>>

\* get_track_info is called; its record, if any, is appended with the mood
CmTrackInfo ==
    /\ cm.pc = "tracks"
    /\ cm.item <= Len(cm.playlist_tracks)
    /\ ~Enough(cm.tracks_data, cm.num_tracks)
    /\ cm.playlist_tracks[cm.item] # "none"
    /\ cm' = [cm EXCEPT !.item = @ + 1,
                        !.fetches = Append(@, [op |-> "get_track_info",
                                               playlist |-> cm.playlist,
                                               had |-> Len(cm.tracks_data)]),
                        !.tracks_data =
                            IF cm.playlist_tracks[cm.item] = "info"
                            THEN Append(@, <<cm.playlist, cm.item>>) ELSE @]
    /\ UNCHANGED <<nodes, attrs, edges, dataset, trains, ret, rl, gt, sr>>

\* The inner loop runs out of track items
CmPlaylistDone ==
    /\ cm.pc = "tracks"
    /\ cm.item > Len(cm.playlist_tracks)
    /\ cm' = [cm EXCEPT !.pc = "playlists", !.playlist = @ + 1]
    /\ UNCHANGED <<nodes, attrs, edges, dataset, trains, ret, rl, gt, sr>>

\* return tracks_data
CmReturn ==
    /\ cm.pc = "playlists"
    /\ cm.playlist > cm.playlists
    /\ cm' = [pc |-> "returned", num_tracks |-> cm.num_tracks,
              playlists |-> cm.playlists, fetches |-> cm.fetches,
              result |-> cm.tracks_data]
    /\ UNCHANGED <<nodes, attrs, edges, dataset, trains, ret, rl, gt, sr>>

----------------------------------------------------------------------------
(* Inputs of the transition model *)

\* Datasets list their rows mood by mood, as collect_all_mood_data builds them
Datasets ==
    LET picks == UNION {[1..n -> TrackIds] : n \in NumClusters..MaxRows}
        ordered == {p \in picks : \A i \in 1..(Len(p) - 1) : p[i] <= p[i + 1]}
    IN  {[i \in DOMAIN p |-> Tracks[p[i]]] : p \in ordered}

\* The labels fit_predict gives the tracks of a dataset: the lowest and the
\* highest cluster index
Labelings(rows) ==
    [{rows[i].id : i \in DOMAIN rows} -> {0, NumClusters - 1}]

\* The emotions given to generate_playlist: two moods of the datasets, a mood
\* of no dataset, and a string that is no mood but begins node identifiers
Emotions == {Sad, Happy, Calm, <<"h", "a", "p", "p", "y", "_">>}

Minutes == 0..MaxMinutes

----------------------------------------------------------------------------
(* One model instance, trained once, then asked for a playlist (main() of   *)
(* generate_playlist.py); generate_playlist leaves the graph as it is, so a *)
(* second request meets the same graph.                                     *)

Init ==
    /\ ModelInit
    /\ rl = RlIdle /\ gt = GtIdle /\ sr = SrIdle /\ cm = CmIdle

Next ==
    \/ \E rows \in Datasets : \E labels \in Labelings(rows) :
          trains = 0 /\ Train(rows, labels)
    \/ \E s \in Emotions, e \in Emotions, m \in Minutes :
          trains > 0 /\ ret = NoCall /\ GenerateNoNodes(s, e, m)
    \/ \E s \in Emotions, e \in Emotions, m \in Minutes :
          trains > 0 /\ ret = NoCall /\ GenerateNoPath(s, e, m)
    \/ \E s \in Emotions, e \in Emotions, m \in Minutes :
          trains > 0 /\ ret = NoCall /\ GeneratePlaylist(s, e, m)

Spec == Init /\ [][Next]_vars

(* One model instance trained again and again *)

RetrainDatasets ==
    {d \in Datasets : Cardinality({d[i].id : i \in DOMAIN d}) <= MaxDistinct}

NextRetrain ==
    \E rows \in RetrainDatasets : \E labels \in Labelings(rows) : Train(rows, labels)

SpecRetrain == Init /\ [][NextRetrain]_vars

(* One call of _handle_rate_limit *)

NextRetry ==
    \/ \E script \in Scripts : RlStart(script)
    \/ RlReturn
    \/ RlRetry
    \/ RlRaise

SpecRetry == Init /\ [][NextRetry]_vars

(* One call of get_playlist_tracks *)

NextTracks ==
    \/ \E resp \in Responses : GtFirst(resp)
    \/ \E resp \in Responses : GtNext(resp)
    \/ GtReturn

SpecTracks == Init /\ [][NextTracks]_vars

(* One call of search_playlists_by_mood *)

NextSearch ==
    \/ \E limit \in 1..MaxLimit : SrStart(limit)
    \/ \E resp \in SearchResponses : SrQuery(resp)
    \/ SrReturn

SpecSearch == Init /\ [][NextSearch]_vars

----------------------------------------------------------------------------
(* collect_mood_data on its own *)

NextCollect ==
    \/ \E num_tracks \in 0..MaxNumTracks, n \in 0..MaxPlaylists :
          CmStart(num_tracks, n)
    \/ \E playlist_tracks \in PlaylistTracks : CmPlaylist(playlist_tracks)
    \/ CmBreak
    \/ CmSkip
    \/ CmTrackInfo
    \/ CmPlaylistDone
    \/ CmReturn

SpecCollect == Init /\ [][NextCollect]_vars

----------------------------------------------------------------------------
(* Properties *)

Count(seq, x) == Cardinality({i \in DOMAIN seq : seq[i] = x})

MoodsOf(ds) == {ds[i].mood : i \in DOMAIN ds}

\* The graph _build_transition_graph derives from one dataset alone
FreshAttrs(ds) == NodesAfter(<<>>, ds)

FreshEdges(ds) == EdgesAfter(<<>>, FreshAttrs(ds))

FreshNodes(ds) == AddNodes(<<>>, SortedKeys(GroupKeys(ds)))

\* C1: after train(dataset) on a freshly constructed model every row of the
\* dataset is in the song list of exactly one node, the node of its mood and
\* cluster, as often as the dataset holds it; the song lists hold nothing
\* else; and there are at most 5 nodes for each distinct mood.
C1_RowsInExactlyOneNode ==
    trains = 1 =>
        /\ \A i \in DOMAIN dataset :
              /\ NodeId(dataset[i].mood, dataset[i].cluster) \in DOMAIN attrs
              /\ \A n \in DOMAIN attrs :
                    Count(attrs[n].songs, dataset[i]) =
                        IF n = NodeId(dataset[i].mood, dataset[i].cluster)
                        THEN Count(dataset, dataset[i]) ELSE 0
        /\ \A n \in DOMAIN attrs :
              \A j \in DOMAIN attrs[n].songs :
                 \E i \in DOMAIN dataset : dataset[i] = attrs[n].songs[j]
        /\ Cardinality(DOMAIN attrs) <= 5 * Cardinality(MoodsOf(dataset))

\* A trained model with a node of several songs and two nodes of one mood
C1_Witness ==
    /\ trains = 1
    /\ \E n \in DOMAIN attrs : Len(attrs[n].songs) >= 2
    /\ \E n1, n2 \in DOMAIN attrs : n1 # n2 /\ attrs[n1].mood = attrs[n2].mood

\* C2: after any sequence of train calls the graph's nodes, song lists and
\* edges are exactly those derived from the dataset of the most recent call.
C2_GraphBuiltFresh ==
    trains >= 1 =>
        /\ nodes = FreshNodes(dataset)
        /\ attrs = FreshAttrs(dataset)
        /\ edges = FreshEdges(dataset)

\* C3: every ordered pair of nodes (self-pairs included) has an edge exactly
\* when affinity times mean similarity of the two nodes' first songs is
\* positive, the edge carries that product, and the product is greater than 0
\* and at most 0.8.
C3_EdgeWeights ==
    /\ DOMAIN edges \subseteq (DOMAIN attrs) \X (DOMAIN attrs)
    /\ \A n1 \in DOMAIN attrs : \A n2 \in DOMAIN attrs :
          LET weight == RatMul(BaseWeight(attrs[n1].mood, attrs[n2].mood),
                               FeatureSimilarity(attrs[n1].songs[1],
                                                 attrs[n2].songs[1]))
          IN  /\ <<n1, n2>> \in DOMAIN edges <=> RatLess(<<0, 1>>, weight)
              /\ <<n1, n2>> \in DOMAIN edges =>
                    /\ edges[<<n1, n2>>] = weight
                    /\ RatLess(<<0, 1>>, edges[<<n1, n2>>])
                    /\ RatLeq(edges[<<n1, n2>>], <<8, 10>>)

\* C4: a generate_playlist call whose start_emotion or end_emotion is the mood
\* of no node raises the 'no such mood' error, and no shortest-path search
\* has been attempted.
C4_AbsentMoodRaises ==
    LET moods == {attrs[n].mood : n \in DOMAIN attrs} IN
    (ret.kind # "none" /\ (ret.start \notin moods \/ ret.end \notin moods)) =>
        (ret.kind = "no_nodes" /\ ~ret.searched)

\* A track belongs to a node of the given emotion: a node generate_playlist
\* takes for it, whose identifier begins with the emotion
InNodeOf(song, emotion) ==
    \E n \in DOMAIN attrs : StartsWith(n, emotion) /\ song \in Range(attrs[n].songs)

Durations(playlist, k) ==
    RatSum([i \in 1..k |-> <<playlist[i].duration_ms, 1>>])[1]

SadToHappyAtZero ==
    /\ trains = 1
    /\ MoodsOf(dataset) = {Sad, Happy}
    /\ ret.kind # "none"
    /\ ret.start = Sad /\ ret.end = Happy /\ ret.minutes = 0

\* C6 as stated: trained on the moods 'sad' and 'happy',
\* generate_playlist('sad', 'happy', 0) returns a playlist of exactly one
\* track, a track of the first node of the chosen path.
C6_SingleTrack ==
    SadToHappyAtZero =>
        /\ ret.kind = "playlist"
        /\ Len(ret.playlist) = 1
        /\ ret.playlist[1] \in Range(attrs[ret.path[1]].songs)

\* C6 as amended: the call raises 'no valid path' when no node whose
\* identifier begins with 'sad' reaches one whose identifier begins with
\* 'happy', and otherwise returns a playlist of exactly one track, a track of
\* the first node of the chosen path.
C6_SingleTrackOrNoPath ==
    SadToHappyAtZero =>
        LET reachable ==
                \E s \in Range(NodesFor(nodes, Sad)) :
                   \E e \in Range(NodesFor(nodes, Happy)) : PathsFrom(<<s>>, e) # {}
        IN  /\ ret.kind \in {"playlist", "no_path"}
            /\ ret.kind = "no_path" <=> ~reachable
            /\ ret.kind = "playlist" =>
                  /\ Len(ret.playlist) = 1
                  /\ ret.playlist[1] \in Range(attrs[ret.path[1]].songs)

\* The single track returned although the path has further nodes
C6_Witness ==
    /\ SadToHappyAtZero
    /\ ret.kind = "playlist"
    /\ Len(ret.playlist) = 1
    /\ Len(ret.path) >= 2

\* The seconds slept as backoff, in order
RECURSIVE BackoffSeconds(_)
BackoffSeconds(sleeps) ==
    IF sleeps = <<>> THEN <<>>
    ELSE IF sleeps[1].kind = "backoff"
         THEN <<sleeps[1].seconds>> \o BackoffSeconds(Tail(sleeps))
         ELSE BackoffSeconds(Tail(sleeps))

\* C7: when the first two invocations fail with a '429' error and the third
\* succeeds, the call does not raise, and it returns the third invocation's
\* result after exactly three invocations, having slept 1, 2, 1, 4, 1 seconds:
\* 1 before each invocation, 2 after the first failure, 4 after the second.
C7_ThirdAttemptReturns ==
    (/\ rl.pc # "idle"
     /\ Contains(rl.script[1], Msg429)
     /\ Contains(rl.script[2], Msg429)
     /\ rl.script[3] = <<"o", "k">>) =>
        /\ rl.pc # "raised"
        /\ rl.calls <= 3
        /\ rl.pc = "returned" =>
              /\ rl.calls = 3
              /\ rl.result = 3
              /\ rl.sleeps = <<[kind |-> "throttle", seconds |-> 1],
                               [kind |-> "backoff", seconds |-> 2],
                               [kind |-> "throttle", seconds |-> 1],
                               [kind |-> "backoff", seconds |-> 4],
                               [kind |-> "throttle", seconds |-> 1]>>

C7_Witness ==
    /\ rl.pc = "returned"
    /\ Contains(rl.script[1], Msg429)
    /\ Contains(rl.script[2], Msg429)
    /\ rl.calls = 3

AllRateLimited ==
    /\ rl.pc # "idle"
    /\ \A i \in DOMAIN rl.script :
          Contains(rl.script[i], Msg429) \/ Contains(rl.script[i], Msg403)

\* C8 as stated: when every invocation fails with a '429' or '403' error the
\* call never returns, makes at most 3 invocations, and raises after backoff
\* delays of 2, 4 and 8 seconds.
C8_BackoffTwoFourEight ==
    AllRateLimited =>
        /\ rl.pc # "returned"
        /\ rl.calls <= 3
        /\ rl.pc = "raised" => BackoffSeconds(rl.sleeps) = <<2, 4, 8>>

\* C8 as amended: when every invocation fails with a '429' or '403' error the
\* call never returns, makes at most 3 invocations, and raises after the
\* third, having slept backoff delays of 2 and 4 seconds (none after the
\* third failure) and 1 second before each invocation.
C8_BackoffTwoFour ==
    AllRateLimited =>
        /\ rl.pc # "returned"
        /\ rl.calls <= 3
        /\ rl.pc = "raised" =>
              /\ rl.calls = 3
              /\ BackoffSeconds(rl.sleeps) = <<2, 4>>
              /\ rl.sleeps = <<[kind |-> "throttle", seconds |-> 1],
                               [kind |-> "backoff", seconds |-> 2],
                               [kind |-> "throttle", seconds |-> 1],
                               [kind |-> "backoff", seconds |-> 4],
                               [kind |-> "throttle", seconds |-> 1]>>

\* Three failures, a '403' among them, and the error raised
C8_Witness ==
    /\ AllRateLimited
    /\ rl.pc = "raised"
    /\ \E i \in DOMAIN rl.script : rl.script[i] = Msg403

\* C9: get_playlist_tracks returns at most 50 items, and each further page
\* was requested with fewer than 50 items accumulated.
C9_AtMostFifty ==
    /\ gt.pc = "returned" => Len(gt.result) <= 50
    /\ gt.pc # "idle" => \A k \in DOMAIN gt.had : gt.had[k] < 50

\* 50 items returned out of more, fetched with several requests
C9_Witness ==
    /\ gt.pc = "returned"
    /\ Len(gt.result) = 50
    /\ gt.requests >= 2
    /\ \E i \in DOMAIN gt.result : gt.result[i][1] = 2

\* C10: search_playlists_by_mood returns no identifier twice, and at most
\* limit entries.
C10_NoDuplicateIds ==
    sr.pc = "returned" =>
        /\ \A i \in DOMAIN sr.result : \A j \in DOMAIN sr.result :
              i # j => sr.result[i] # sr.result[j]
        /\ Len(sr.result) <= sr.limit

\* A full result although the responses offered more items than it holds
C10_Witness ==
    /\ sr.pc = "returned"
    /\ Len(sr.result) = sr.limit
    /\ Len(sr.result) >= 2
    /\ sr.offered > Len(sr.result) + 2

\* C11 (as stated): collect_mood_data never holds more than num_tracks
\* records, and once num_tracks records are collected it issues no further
\* playlist-track fetch and no further track-info fetch
C11_StopsAtNumTracks ==
    cm.pc # "idle" =>
        /\ Len(IF cm.pc = "returned" THEN cm.result ELSE cm.tracks_data)
              <= cm.num_tracks
        /\ cm.num_tracks >= 1 =>
              \A i \in DOMAIN cm.fetches : cm.fetches[i].had < cm.num_tracks

\* The (start node, end node) pairs of the last call that have a path
ConnectedPairs ==
    {<<s, e>> \in Range(NodesFor(nodes, ret.start)) \X
                  Range(NodesFor(nodes, ret.end)) : PathsFrom(<<s>>, e) # {}}

\* C12: the path generate_playlist selects is one of the weighted shortest
\* paths computed for the (start node, end node) pairs that have a path, one
\* per such pair, and no computed path has a path duration strictly closer to
\* duration_minutes x 60000 ms than the selected one
C12_ClosestToTarget ==
    ret.kind = "playlist" =>
        LET target == ret.minutes * MsPerMinute IN
        /\ Len(ret.candidates) = Cardinality(ConnectedPairs)
        /\ \A i \in DOMAIN ret.candidates :
              LET c == ret.candidates[i] IN
              /\ <<c[1], c[Len(c)]>> \in ConnectedPairs
              /\ c \in ShortestPaths(c[1], c[Len(c)])
        /\ \E i \in DOMAIN ret.candidates : ret.candidates[i] = ret.path
        /\ \A i \in DOMAIN ret.candidates :
              ~RatLess(Distance(ret.candidates[i], target),
                       Distance(ret.path, target))

\* C12 witness: a playlist call with several computed paths where the
\* selected one is strictly closer to a positive target than the first
\* computed one and is not the one of least duration
C12_Witness ==
    /\ ret.kind = "playlist"
    /\ ret.minutes > 0
    /\ Len(ret.candidates) >= 3
    /\ RatLess(Distance(ret.path, ret.minutes * MsPerMinute),
               Distance(ret.candidates[1], ret.minutes * MsPerMinute))
    /\ \E i \in DOMAIN ret.candidates :
          RatLess(PathDuration(ret.candidates[i]), PathDuration(ret.path))

====
